---- MODULE Spec2Model ----
(***************************************************************************)
(* Model of legostocker: RebrickableStore (legostocker/sets.py) and the    *)
(* command entry point Store (legostocker/__main__.py).                    *)
(*                                                                         *)
(* A csv file is read by pandas.read_csv in the default executor, the      *)
(* resulting DataFrame is wrapped by RebrickableStore, and by_id filters   *)
(* the frame with Series.str.startswith and converts the first matching    *)
(* row to a LegoSet.  pandas semantics are those of the 1.x line the       *)
(* package was written against: str.startswith yields NaN for a non-string *)
(* element and a boolean mask holding NaN is rejected with ValueError.     *)
(*                                                                         *)
(* Strings that are inspected character by character (the set_num column,  *)
(* str(set_id)) are sequences of one-character strings.  Optional[int]     *)
(* fields are sets holding at most one integer ({} is None).               *)
(***************************************************************************)
EXTENDS Integers, Sequences, FiniteSets, TLC

VARIABLES
    csv_file,   \* what is stored under the path handed to from_csv
    executor,   \* the default executor's job running _sync (pd.read_csv)
    store,      \* Store._store: the RebrickableStore and its sets_frame
    pc,         \* position of every task of the event loop
    running,    \* the task the event loop is executing, "none" when idle
    arg,        \* set_id of every task's current or last by_id call
    row,        \* searched_set of a by_id call between lines 92 and 93
    result,     \* outcome of every task's last call
    ticks       \* steps other tasks took while the load was outstanding

vars == <<csv_file, executor, store, pc, running, arg, row, result, ticks>>

----------------------------------------------------------------------------
(* Bounds *)

MaxRows == 2
MaxTicks == 2

----------------------------------------------------------------------------
(* Column names, sets.py lines 40-43 *)

DATASET_COL_ID == "set_num"
DATASET_COL_NAME == "name"
DATASET_COL_REL_YEAR == "year"
DATASET_COL_PART_COUNT == "num_parts"

AllColumns ==
    {DATASET_COL_ID, DATASET_COL_NAME, DATASET_COL_REL_YEAR, DATASET_COL_PART_COUNT}

----------------------------------------------------------------------------
(* Cell values of a DataFrame *)

StrCell(s) == [t |-> "str", s |-> s]
IntCell(v) == [t |-> "int", v |-> v]
NaNId == [t |-> "nan", s |-> <<>>]
NaNNum == [t |-> "nan", v |-> 0]

Digits == <<"0", "1", "2", "3", "4", "5", "6", "7", "8", "9">>

IsDigit(c) == \E i \in 1..10 : Digits[i] = c

DigitVal(c) == (CHOOSE i \in 1..10 : Digits[i] = c) - 1

\* Python str(int) for a non-negative int: its decimal digits.
RECURSIVE PyStr(_)
PyStr(n) ==
    IF n < 10 THEN <<Digits[n + 1]>>
    ELSE PyStr(n \div 10) \o <<Digits[(n % 10) + 1]>>

\* Value of a digit string, most significant digit first.
RECURSIVE DigitsValue(_)
DigitsValue(s) ==
    IF s = <<>> THEN 0
    ELSE 10 * DigitsValue(SubSeq(s, 1, Len(s) - 1)) + DigitVal(s[Len(s)])

\* Python int(str): the value of a non-empty digit string, ValueError otherwise.
PyIntOfStr(s) ==
    IF s # <<>> /\ \A i \in 1..Len(s) : IsDigit(s[i])
    THEN [ok |-> TRUE, v |-> DigitsValue(s)]
    ELSE [ok |-> FALSE, v |-> 0]

\* Python int(cell) for a numeric column: int(numpy.int64) is the value,
\* int(float('nan')) raises ValueError.
PyIntOfNum(c) ==
    IF c.t = "int" THEN [ok |-> TRUE, v |-> c.v] ELSE [ok |-> FALSE, v |-> 0]

\* Python str(cell) for the name column: str(float('nan')) is 'nan'.
PyStrOfName(c) == IF c.t = "str" THEN c.s ELSE "nan"

\* s.split('-')[0]: the characters before the first '-', all of s without one.
SplitDash0(s) ==
    IF \E i \in 1..Len(s) : s[i] = "-"
    THEN SubSeq(s, 1, (CHOOSE i \in 1..Len(s) :
                          s[i] = "-" /\ \A j \in 1..(i - 1) : s[j] # "-") - 1)
    ELSE s

\* Variant of the match rule: the numeric part before the dash equals the prefix.
numeric_prefix_equals(s, p) == SplitDash0(s) = p

\* Python str.startswith: a literal prefix test.
startswith(s, p) == Len(p) <= Len(s) /\ SubSeq(s, 1, Len(p)) = p

----------------------------------------------------------------------------
(* Values a call produces *)

Pending == [kind |-> "pending"]
ReturnNone == [kind |-> "None"]
Raise(e) == [kind |-> "Error", exc |-> e]

LegoSet(set_id, set_name, release_year, part_count) ==
    [kind |-> "LegoSet", set_id |-> set_id, set_name |-> set_name,
     release_year |-> release_year, part_count |-> part_count]

----------------------------------------------------------------------------
(* RebrickableStore.by_id and _pdrow_to_set as functions of the frame *)

\* Variant of the mask in which a non-string element counts as no match
\* (str.startswith(..., na=False)).
str_startswith_na_false(col, p) ==
    [i \in 1..Len(col) |->
        IF col[i].t = "str" /\ startswith(col[i].s, p) THEN "True" ELSE "False"]

\* Series.str.startswith(p) over the identifier column: True or False for a
\* string element, NaN for any other element.
str_startswith(col, p) ==
    [i \in 1..Len(col) |->
        IF col[i].t = "str"
        THEN (IF startswith(col[i].s, p) THEN "True" ELSE "False")
        ELSE "NaN"]

\* Variant of the row choice: the last matching row.
iloc_last(rows) == rows[Len(rows)]

\* searched_set.iloc[0]: the first row of the filtered frame.
iloc0(rows) == rows[1]

\* The rows a boolean mask keeps, in table order.
RECURSIVE MaskSelect(_, _)
MaskSelect(rows, mask) ==
    IF rows = <<>> THEN <<>>
    ELSE (IF mask[1] = "True" THEN <<rows[1]>> ELSE <<>>)
         \o MaskSelect(Tail(rows), Tail(mask))

\* Variant of the conversion that leaves a missing number out of the record.
_pdrow_to_set_optional(columns, r) ==
    IF DATASET_COL_ID \notin columns THEN Raise("KeyError")
    ELSE IF r.set_num.t # "str" THEN Raise("AssertionError")
    ELSE IF ~PyIntOfStr(SplitDash0(r.set_num.s)).ok THEN Raise("ValueError")
    ELSE IF DATASET_COL_NAME \notin columns THEN Raise("KeyError")
    ELSE IF DATASET_COL_REL_YEAR \notin columns THEN Raise("KeyError")
    ELSE IF DATASET_COL_PART_COUNT \notin columns THEN Raise("KeyError")
    ELSE LegoSet(PyIntOfStr(SplitDash0(r.set_num.s)).v,
                 PyStrOfName(r.name),
                 IF PyIntOfNum(r.year).ok THEN {PyIntOfNum(r.year).v} ELSE {},
                 IF PyIntOfNum(r.num_parts).ok
                 THEN {PyIntOfNum(r.num_parts).v} ELSE {})

\* _pdrow_to_set, lines 74-83: the two assertions, then the four keyword
\* arguments of LegoSet(...) evaluated in order; the first failure raises.
_pdrow_to_set(columns, r) ==
    IF DATASET_COL_ID \notin columns THEN Raise("KeyError")
    ELSE IF r.set_num.t # "str" THEN Raise("AssertionError")
    ELSE IF ~PyIntOfStr(SplitDash0(r.set_num.s)).ok THEN Raise("ValueError")
    ELSE IF DATASET_COL_NAME \notin columns THEN Raise("KeyError")
    ELSE IF DATASET_COL_REL_YEAR \notin columns THEN Raise("KeyError")
    ELSE IF ~PyIntOfNum(r.year).ok THEN Raise("ValueError")
    ELSE IF DATASET_COL_PART_COUNT \notin columns THEN Raise("KeyError")
    ELSE IF ~PyIntOfNum(r.num_parts).ok THEN Raise("ValueError")
    ELSE LegoSet(PyIntOfStr(SplitDash0(r.set_num.s)).v,
                 PyStrOfName(r.name),
                 {PyIntOfNum(r.year).v},
                 {PyIntOfNum(r.num_parts).v})

IdColumn(frame) == [i \in 1..Len(frame.rows) |-> frame.rows[i].set_num]

\* Variant of the filter that skips matching rows which do not convert.
by_id_filter_convertible(frame, set_id) ==
    LET mask == str_startswith(IdColumn(frame), PyStr(set_id))
        searched_set == MaskSelect(frame.rows, mask)
        good == SelectSeq(searched_set,
                    LAMBDA r : _pdrow_to_set(frame.columns, r).kind = "LegoSet")
    IN  IF DATASET_COL_ID \notin frame.columns THEN Raise("KeyError")
        ELSE IF frame.rows # <<>>
                /\ \A i \in 1..Len(frame.rows) : frame.rows[i].set_num.t # "str"
        THEN Raise("AttributeError")
        ELSE IF \E i \in 1..Len(mask) : mask[i] = "NaN" THEN Raise("ValueError")
        ELSE IF Len(searched_set) <= 0 THEN ReturnNone
        ELSE IF good # <<>> THEN [kind |-> "row", row |-> iloc0(good)]
        ELSE [kind |-> "row", row |-> iloc0(searched_set)]

\* by_id, lines 86-92: column lookup (KeyError without the column), the .str
\* accessor (AttributeError on a column holding no string), the mask
\* (ValueError when it holds NaN), then None for no match or the first match.
by_id_filter(frame, set_id) ==
    LET mask == str_startswith(IdColumn(frame), PyStr(set_id))
        searched_set == MaskSelect(frame.rows, mask)
    IN  IF DATASET_COL_ID \notin frame.columns THEN Raise("KeyError")
        ELSE IF frame.rows # <<>>
                /\ \A i \in 1..Len(frame.rows) : frame.rows[i].set_num.t # "str"
        THEN Raise("AttributeError")
        ELSE IF \E i \in 1..Len(mask) : mask[i] = "NaN" THEN Raise("ValueError")
        ELSE IF Len(searched_set) <= 0 THEN ReturnNone
        ELSE [kind |-> "row", row |-> iloc0(searched_set)]

\* Variant of by_id that keeps the filtered frame in self.sets_frame.
sets_frame_assigned_filter(frame, set_id) ==
    IF by_id_filter(frame, set_id).kind = "row"
    THEN [frame EXCEPT !.rows =
            MaskSelect(frame.rows, str_startswith(IdColumn(frame), PyStr(set_id)))]
    ELSE frame

\* self.sets_frame once by_id has run: by_id assigns only its local
\* searched_set, never self.sets_frame.
sets_frame_after_by_id(frame, set_id) == frame

\* by_id as a whole, lines 85-93.
by_id(frame, set_id) ==
    LET f == by_id_filter(frame, set_id)
    IN  IF f.kind = "row" THEN _pdrow_to_set(frame.columns, f.row) ELSE f

----------------------------------------------------------------------------
(* The data the model ranges over *)

Tasks == {"main", "other"}

\* Arguments of by_id: 5 matches no identifier below, 7 is a proper prefix
\* of every string identifier, 71 has two variants.
QueryIds == {5, 7, 71, 7140}

IdCells ==
    {StrCell(<<"7", "1", "-", "1">>),
     StrCell(<<"7", "1", "-", "2">>),
     StrCell(<<"7", "1", "4", "0", "-", "1">>),
     StrCell(<<"7", "x", "-", "1">>),
     NaNId}

NameCells == {StrCell("Brick Separator"), StrCell("Town Plan")}

\* Release year and part count of a row; either may be an empty cell.
NumCells ==
    {<<IntCell(2001), IntCell(4)>>,
     <<NaNNum, IntCell(4)>>,
     <<IntCell(2001), NaNNum>>}

MkRow(id, name, nums) ==
    [set_num |-> id, name |-> name, year |-> nums[1], num_parts |-> nums[2]]

Rows == {MkRow(id, name, nums) : id \in IdCells, name \in NameCells, nums \in NumCells}

\* A few rows for the runs that start before the file is read.
FileRows ==
    {MkRow(StrCell(<<"7", "1", "-", "1">>), StrCell("Brick Separator"),
           <<IntCell(2001), IntCell(4)>>),
     MkRow(StrCell(<<"7", "1", "4", "0", "-", "1">>), StrCell("Town Plan"),
           <<NaNNum, IntCell(4)>>),
     MkRow(NaNId, StrCell("Town Plan"), <<IntCell(2001), IntCell(4)>>)}

SeqsUpTo(S, n) == UNION {[1..k -> S] : k \in 0..n}

NoRow == MkRow(NaNId, StrCell(""), <<NaNNum, NaNNum>>)

NoFrame == [columns |-> {}, rows |-> <<>>]

TableFile(columns, rows) == [kind |-> "table", columns |-> columns, rows |-> rows]

\* What the path may hold: nothing, an empty file, or a header and rows.
Files ==
    {[kind |-> "missing", columns |-> {}, rows |-> <<>>],
     [kind |-> "empty", columns |-> {}, rows |-> <<>>]}
    \cup {TableFile(c, r) :
            c \in {AllColumns, AllColumns \ {DATASET_COL_ID},
                   AllColumns \ {DATASET_COL_REL_YEAR}},
            r \in SeqsUpTo(FileRows, MaxRows)}

----------------------------------------------------------------------------
(* Loading: RebrickableStore.from_csv and the executor job *)

\* Variant of the reader that rejects a table without the identifier column.
read_csv_validating(file) ==
    IF file.kind = "missing" THEN [ok |-> FALSE, exc |-> "FileNotFoundError"]
    ELSE IF file.kind = "empty" THEN [ok |-> FALSE, exc |-> "EmptyDataError"]
    ELSE IF DATASET_COL_ID \notin file.columns
    THEN [ok |-> FALSE, exc |-> "ParserError"]
    ELSE [ok |-> TRUE, exc |-> "none"]

\* pd.read_csv(csv_file), line 68: FileNotFoundError without the file,
\* EmptyDataError for a file with no header, a frame otherwise (no column
\* is required).
read_csv(file) ==
    IF file.kind = "missing" THEN [ok |-> FALSE, exc |-> "FileNotFoundError"]
    ELSE IF file.kind = "empty" THEN [ok |-> FALSE, exc |-> "EmptyDataError"]
    ELSE [ok |-> TRUE, exc |-> "none"]

\* The frame read_csv returns for a file it accepts.
FrameOf(file) == [columns |-> file.columns, rows |-> file.rows]

\* Variant: the caller runs on without waiting for the job.
future_started(ex) == ex.state # "idle"

\* The future of run_in_executor is done: the job returned or raised.
future_done(ex) == ex.state \in {"done", "failed"}

\* Variant: the read is made by the calling task itself, which keeps the loop.
run_inline_holder(t) == t

\* Who holds the event loop while a task awaits run_in_executor (line 71):
\* the task is suspended and the loop is free.
run_in_executor_holder(t) == "none"

\* Variant: awaiting a coroutine hands the loop back before it runs.
await_yield_holder(t) == "none"

\* Who holds the event loop while by_id awaits the coroutine _pdrow_to_set
\* (line 93): a coroutine is run inline by the awaiting task.
await_coroutine_holder(t) == t

\* Store.__init__ line 14 into from_csv lines 67-71: submit _sync, suspend.
from_csv_call ==
    /\ pc["main"] = "start"
    /\ running = "none"
    /\ executor' = [state |-> "submitted", buffer |-> <<>>, exc |-> "none"]
    /\ pc' = [pc EXCEPT !["main"] = "await_load"]
    /\ running' = run_in_executor_holder("main")
    /\ UNCHANGED <<csv_file, store, arg, row, result, ticks>>

\* _sync in the worker thread: read_csv opens the file and reads the header.
executor_open ==
    /\ executor.state = "submitted"
    /\ executor' = IF read_csv(csv_file).ok
                   THEN [executor EXCEPT !.state = "reading"]
                   ELSE [executor EXCEPT !.state = "failed",
                                         !.exc = read_csv(csv_file).exc]
    /\ UNCHANGED <<csv_file, store, pc, running, arg, row, result, ticks>>

\* _sync in the worker thread: read_csv parses the next row.
executor_read_row ==
    /\ executor.state = "reading"
    /\ Len(executor.buffer) < Len(csv_file.rows)
    /\ executor' = [executor EXCEPT
                      !.buffer = Append(@, csv_file.rows[Len(@) + 1])]
    /\ UNCHANGED <<csv_file, store, pc, running, arg, row, result, ticks>>

\* _sync in the worker thread: read_csv returns the frame.
executor_finish ==
    /\ executor.state = "reading"
    /\ Len(executor.buffer) = Len(csv_file.rows)
    /\ executor' = [executor EXCEPT !.state = "done"]
    /\ UNCHANGED <<csv_file, store, pc, running, arg, row, result, ticks>>

\* from_csv resumes at line 71: the job's exception propagates through
\* run_until_complete and no store is built, or cls(sets_frame) is returned
\* (line 72) and kept as Store._store.
from_csv_return ==
    /\ pc["main"] = "await_load"
    /\ running \in {"none", "main"}
    /\ future_done(executor)
    /\ IF executor.state = "failed"
       THEN /\ pc' = [pc EXCEPT !["main"] = "failed"]
            /\ result' = [result EXCEPT !["main"] = Raise(executor.exc)]
            /\ store' = store
       ELSE /\ pc' = [pc EXCEPT !["main"] = "ready"]
            /\ result' = result
            /\ store' = [exists |-> TRUE,
                         sets_frame |-> [columns |-> csv_file.columns,
                                         rows |-> executor.buffer]]
    /\ running' = "none"
    /\ UNCHANGED <<csv_file, executor, arg, row, ticks>>

\* A step of another task of the same loop, counted while the load is awaited.
other_task_step ==
    /\ running = "none"
    /\ pc["main"] = "await_load"
    /\ ticks < MaxTicks
    /\ ticks' = ticks + 1
    /\ UNCHANGED <<csv_file, executor, store, pc, running, arg, row, result>>

----------------------------------------------------------------------------
(* Queries *)

\* A task can start a query: it is between calls, it has a store, and the
\* loop is not executing another task.
CanQuery(t) == pc[t] = "ready" /\ store.exists /\ running = "none"

\* by_id lines 85-92 (Store.by_id line 18 for the entry point): an error or
\* None ends the call, a match goes on to the conversion.
by_id_call(t, set_id) ==
    /\ CanQuery(t)
    /\ LET f == by_id_filter(store.sets_frame, set_id)
       IN  IF f.kind = "row"
           THEN /\ pc' = [pc EXCEPT ![t] = "convert"]
                /\ row' = [row EXCEPT ![t] = f.row]
                /\ result' = [result EXCEPT ![t] = Pending]
                /\ running' = await_coroutine_holder(t)
           ELSE /\ pc' = pc
                /\ row' = row
                /\ result' = [result EXCEPT ![t] = f]
                /\ running' = "none"
    /\ arg' = [arg EXCEPT ![t] = set_id]
    /\ store' = [store EXCEPT
                   !.sets_frame = sets_frame_after_by_id(@, set_id)]
    /\ UNCHANGED <<csv_file, executor, ticks>>

\* by_id line 93 with _pdrow_to_set lines 74-83: the record or the error.
by_id_return(t) ==
    /\ pc[t] = "convert"
    /\ running \in {t, "none"}
    /\ result' = [result EXCEPT
                    ![t] = _pdrow_to_set(store.sets_frame.columns, row[t])]
    /\ pc' = [pc EXCEPT ![t] = "ready"]
    /\ row' = [row EXCEPT ![t] = NoRow]
    /\ running' = "none"
    /\ UNCHANGED <<csv_file, executor, store, arg, ticks>>

----------------------------------------------------------------------------
(* Specifications *)

\* The entry point querying a store that from_csv has built: every frame of
\* up to MaxRows rows, all four columns present.
Init ==
    /\ csv_file \in {TableFile(AllColumns, r) : r \in SeqsUpTo(Rows, MaxRows)}
    /\ executor = [state |-> "done", buffer |-> csv_file.rows, exc |-> "none"]
    /\ store = [exists |-> TRUE, sets_frame |-> FrameOf(csv_file)]
    /\ pc = [t \in Tasks |-> "ready"]
    /\ running = "none"
    /\ arg = [t \in Tasks |-> 0]
    /\ row = [t \in Tasks |-> NoRow]
    /\ result = [t \in Tasks |-> Pending]
    /\ ticks = 0

Next ==
    \/ \E set_id \in QueryIds : by_id_call("main", set_id)
    \/ by_id_return("main")

Spec == Init /\ [][Next]_vars

\* The whole run from process start: the load, then queries by the entry
\* point and by another task of the loop that was handed the store.
InitLoop ==
    /\ csv_file \in Files
    /\ executor = [state |-> "idle", buffer |-> <<>>, exc |-> "none"]
    /\ store = [exists |-> FALSE, sets_frame |-> NoFrame]
    /\ pc = [t \in Tasks |-> IF t = "main" THEN "start" ELSE "ready"]
    /\ running = "none"
    /\ arg = [t \in Tasks |-> 0]
    /\ row = [t \in Tasks |-> NoRow]
    /\ result = [t \in Tasks |-> Pending]
    /\ ticks = 0

NextLoop ==
    \/ from_csv_call
    \/ executor_open
    \/ executor_read_row
    \/ executor_finish
    \/ from_csv_return
    \/ other_task_step
    \/ \E t \in Tasks, set_id \in QueryIds : by_id_call(t, set_id)
    \/ \E t \in Tasks : by_id_return(t)

SpecLoop == InitLoop /\ [][NextLoop]_vars

----------------------------------------------------------------------------
(* Vocabulary of the properties, stated on the table and not through the
   operators above *)

Frame == store.sets_frame

IsPrefix(p, s) == \E k \in 0..Len(s) : SubSeq(s, 1, k) = p

\* Row i of the frame has a string identifier starting with the decimal
\* string of n.
Matches(frame, n, i) ==
    /\ frame.rows[i].set_num.t = "str"
    /\ IsPrefix(PyStr(n), frame.rows[i].set_num.s)

HasMatch(frame, n) == \E i \in 1..Len(frame.rows) : Matches(frame, n, i)

FirstMatch(frame, n) ==
    frame.rows[CHOOSE i \in 1..Len(frame.rows) :
                  /\ Matches(frame, n, i)
                  /\ \A j \in 1..(i - 1) : ~Matches(frame, n, j)]

AllIdsStr(frame) == \A i \in 1..Len(frame.rows) : frame.rows[i].set_num.t = "str"

\* "<digits>-<variant>": one or more digits, then a dash.
IdWellFormed(c) ==
    /\ c.t = "str"
    /\ \E k \in 2..Len(c.s) :
          /\ c.s[k] = "-"
          /\ \A j \in 1..(k - 1) : IsDigit(c.s[j])

RowWellFormed(r) ==
    /\ IdWellFormed(r.set_num)
    /\ r.name.t = "str"
    /\ r.year.t = "int"
    /\ r.num_parts.t = "int"

FrameWellFormed(frame) ==
    /\ frame.columns = AllColumns
    /\ \A i \in 1..Len(frame.rows) : RowWellFormed(frame.rows[i])

\* res is the record of row r: the id is the integer before the first dash,
\* name, year and part count are the row's.
IsRecordOf(res, r) ==
    /\ res.kind = "LegoSet"
    /\ r.set_num.t = "str"
    /\ IsPrefix(PyStr(res.set_id) \o <<"-">>, r.set_num.s)
    /\ r.name.t = "str" /\ res.set_name = r.name.s
    /\ r.year.t = "int" /\ res.release_year = {r.year.v}
    /\ r.num_parts.t = "int" /\ res.part_count = {r.num_parts.v}

\* Task t has a finished by_id call whose argument and outcome are on record.
Done(t) == pc[t] = "ready" /\ arg[t] # 0 /\ result[t].kind # "pending"

Outstanding == executor.state \in {"submitted", "reading"}

----------------------------------------------------------------------------
(* C1 *)

\* C1 as stated: for every table and every n with at least one matching row,
\* by_id(n) returns the record built from the first matching row.
C1_Original ==
    \A t \in Tasks :
        (Done(t) /\ HasMatch(Frame, arg[t]))
            => IsRecordOf(result[t], FirstMatch(Frame, arg[t]))

\* C1 amended: for every table whose identifiers are all strings and every n
\* whose first matching row is well formed, by_id(n) returns the record built
\* from that first row, never from a later variant.
C1_FirstMatchRecord ==
    \A t \in Tasks :
        (/\ Done(t)
         /\ Frame.columns = AllColumns
         /\ AllIdsStr(Frame)
         /\ HasMatch(Frame, arg[t])
         /\ RowWellFormed(FirstMatch(Frame, arg[t])))
            => IsRecordOf(result[t], FirstMatch(Frame, arg[t]))

\* by_id(71) answered from the first of two variants that give different records.
C1_Witness ==
    /\ Done("main") /\ arg["main"] = 71
    /\ Len(Frame.rows) >= 2
    /\ Matches(Frame, 71, 1) /\ Matches(Frame, 71, 2)
    /\ RowWellFormed(Frame.rows[1]) /\ RowWellFormed(Frame.rows[2])
    /\ Frame.rows[1].name # Frame.rows[2].name
    /\ IsRecordOf(result["main"], Frame.rows[1])

----------------------------------------------------------------------------
(* C2 *)

\* C2: on a table of well-formed rows by_id(n) returns None exactly when no
\* identifier starts with the decimal string of n (a literal prefix test:
\* by_id(7) finds "71-1").
C2_NoneIffNoPrefixMatch ==
    \A t \in Tasks :
        (Done(t) /\ FrameWellFormed(Frame))
            => (result[t] = ReturnNone <=> ~HasMatch(Frame, arg[t]))

\* by_id(7) on a table holding only "71-1" rows returns a record.
C2_Witness ==
    /\ Done("main") /\ arg["main"] = 7
    /\ FrameWellFormed(Frame)
    /\ Frame.rows # <<>>
    /\ \A i \in 1..Len(Frame.rows) :
          Frame.rows[i].set_num = StrCell(<<"7", "1", "-", "1">>)
    /\ result["main"].kind = "LegoSet"

----------------------------------------------------------------------------
(* C3 *)

\* C3: no step changes an existing store, and every finished by_id call has
\* the result that the table the store was constructed with gives for its
\* argument, so calls with the same argument return equal results.
C3_StoreNeverChanges ==
    /\ [][store.exists => store' = store]_vars
    /\ [](\A t \in Tasks :
            (Done(t) /\ store.exists)
                => result[t] = by_id(FrameOf(csv_file), arg[t]))

\* Two callers asked for the same id around other calls and got the same record.
C3_Witness ==
    /\ Done("main") /\ Done("other")
    /\ arg["main"] = arg["other"]
    /\ result["main"].kind = "LegoSet"
    /\ result["main"] = result["other"]

----------------------------------------------------------------------------
(* C4 *)

----------------------------------------------------------------------------
(* C5 *)

\* C5: when the first row matching by_id(n) does not convert (no integer
\* before the dash, or no integer year or part count), the call ends in an
\* error, not in None, a partial record or a later row's record, and the
\* store is left as constructed and ready for the next query.
C5_ConversionFailureRaises ==
    \A t \in Tasks :
        /\ (/\ Done(t)
            /\ AllIdsStr(Frame)
            /\ HasMatch(Frame, arg[t])
            /\ ~RowWellFormed(FirstMatch(Frame, arg[t])))
               => result[t].kind = "Error"
        /\ (Done(t) /\ result[t].kind = "Error")
               => (store.exists /\ Frame = FrameOf(csv_file)
                   /\ (running = "none" => CanQuery(t)))

\* The first match did not convert although a later match would have.
C5_Witness ==
    /\ Done("main")
    /\ Len(Frame.rows) >= 2
    /\ Matches(Frame, arg["main"], 1) /\ Matches(Frame, arg["main"], 2)
    /\ ~RowWellFormed(Frame.rows[1])
    /\ RowWellFormed(Frame.rows[2])
    /\ result["main"] = Raise("ValueError")
    /\ CanQuery("main")

----------------------------------------------------------------------------
(* C6 *)

\* C6 as stated: a first matching row without a release year (or without a
\* part count) gives a record with that field absent and set_id and set_name
\* filled from the row.
C6_Original ==
    \A t \in Tasks :
        (/\ Done(t)
         /\ AllIdsStr(Frame)
         /\ HasMatch(Frame, arg[t])
         /\ IdWellFormed(FirstMatch(Frame, arg[t]).set_num)
         /\ (FirstMatch(Frame, arg[t]).year.t = "nan"
             \/ FirstMatch(Frame, arg[t]).num_parts.t = "nan"))
            => /\ result[t].kind = "LegoSet"
               /\ result[t].set_name = FirstMatch(Frame, arg[t]).name.s
               /\ FirstMatch(Frame, arg[t]).year.t = "nan"
                     => result[t].release_year = {}
               /\ FirstMatch(Frame, arg[t]).num_parts.t = "nan"
                     => result[t].part_count = {}

\* C6 amended: the record declares release_year and part_count optional, but
\* by_id never returns a record in which either is absent; when the first
\* matching row has no release year or no part count the call fails with
\* ValueError.
C6_MissingNumberRaises ==
    \A t \in Tasks :
        /\ (Done(t) /\ result[t].kind = "LegoSet")
              => (Cardinality(result[t].release_year) = 1
                  /\ Cardinality(result[t].part_count) = 1)
        /\ (/\ Done(t)
            /\ AllIdsStr(Frame)
            /\ HasMatch(Frame, arg[t])
            /\ IdWellFormed(FirstMatch(Frame, arg[t]).set_num)
            /\ (FirstMatch(Frame, arg[t]).year.t = "nan"
                \/ FirstMatch(Frame, arg[t]).num_parts.t = "nan"))
              => result[t] = Raise("ValueError")

\* The only matching row has an identifier and a name but no release year.
C6_Witness ==
    /\ Done("main")
    /\ Len(Frame.rows) = 1
    /\ Matches(Frame, arg["main"], 1)
    /\ IdWellFormed(Frame.rows[1].set_num)
    /\ Frame.rows[1].year.t = "nan"
    /\ Frame.rows[1].num_parts.t = "int"
    /\ result["main"] = Raise("ValueError")

----------------------------------------------------------------------------
(* C7 *)

\* C7: on a table holding a row whose identifier is not a string every by_id
\* call ends in an error, whether or not the row or any other row would have
\* matched; the row is never skipped.
C7_NonStringIdRaises ==
    \A t \in Tasks :
        (Done(t) /\ ~AllIdsStr(Frame)) => result[t].kind = "Error"

\* A well-formed first row matches, a later row has a non-string identifier.
C7_Witness ==
    /\ Done("main")
    /\ Len(Frame.rows) >= 2
    /\ Matches(Frame, arg["main"], 1)
    /\ RowWellFormed(Frame.rows[1])
    /\ Frame.rows[2].set_num.t # "str"
    /\ result["main"].kind = "Error"

----------------------------------------------------------------------------
(* C8 *)

\* C8: a store exists only once the executor job has returned, and then holds
\* the whole table of the file; a by_id call is started or finished only on
\* such a store, and in the entry point only after from_csv has returned.
C8_LoadedBeforeQuery ==
    /\ store.exists
          => /\ executor.state = "done"
             /\ csv_file.kind = "table"
             /\ Frame = FrameOf(csv_file)
             /\ pc["main"] \in {"ready", "convert"}
    /\ \A t \in Tasks :
          (pc[t] = "convert" \/ arg[t] # 0) => store.exists

\* A query was answered from a table of at least two rows read by the executor.
C8_Witness ==
    /\ Done("main")
    /\ Len(csv_file.rows) >= 2
    /\ Len(Frame.rows) = Len(csv_file.rows)
    /\ result["main"].kind = "LegoSet"

----------------------------------------------------------------------------
(* C9 *)

\* C9: while the read is outstanding the calling task is suspended in
\* from_csv, the loop is free and another task can take a step; the caller
\* is past the await only when the job has returned or raised.
C9_LoadDoesNotBlockLoop ==
    /\ Outstanding
          => /\ pc["main"] = "await_load"
             /\ running = "none"
             /\ ticks < MaxTicks => ENABLED other_task_step
    /\ pc["main"] \in {"ready", "convert", "failed"}
          => executor.state \in {"done", "failed"}

\* Another task took a step while the executor was still reading rows.
C9_Witness ==
    /\ executor.state = "reading"
    /\ executor.buffer # <<>>
    /\ ticks > 0
    /\ pc["main"] = "await_load"

----------------------------------------------------------------------------
(* C10 *)

\* C10: a by_id call that has reached its conversion holds the loop until it
\* returns, so no second call is in progress and no task is suspended inside
\* by_id; every caller gets the result by_id gives on the table alone.
C10_ByIdDoesNotYield ==
    /\ \A t \in Tasks :
          pc[t] = "convert"
              => (running = t /\ \A u \in Tasks \ {t} : pc[u] # "convert")
    /\ running = "none" => \A t \in Tasks : pc[t] # "convert"
    /\ running # "none" => pc[running] = "convert"
    /\ \A t \in Tasks :
          (Done(t) /\ store.exists) => result[t] = by_id(Frame, arg[t])

\* One caller is inside the conversion while the other has a finished call.
C10_Witness ==
    /\ pc["other"] = "convert"
    /\ running = "other"
    /\ Done("main")
    /\ result["main"].kind = "LegoSet"

====
